---- MODULE Spec2Model ----
(***************************************************************************)
(* Adaptive terrain tiling: the quadtree that chooses the tiles            *)
(* (QuadTree.insertPosition / balance / updateStitchingModeForNode), and   *)
(* the per-frame tile lifecycle of Terrain.updateFromQuadTreeNodes with    *)
(* TerrainTileManager.requestTerrainTileForNode.                           *)
(*                                                                         *)
(* Coordinates are integers: the root rectangle has sides that are         *)
(* multiples of 2^(MaxDepthBound+1), so every midpoint and every centre    *)
(* down to the deepest level is an integer and Box2.getCenter /            *)
(* Box2.getSize are exact, as they are in IEEE doubles for such inputs.    *)
(***************************************************************************)
EXTENDS Integers, Sequences, FiniteSets, TLC

\* ------------------------------------------------------------------ bounds
\* deepest maxDepth a quadtree is constructed with
MaxDepthBound == 3
\* viewpoints are the grid points ((i - 1) * ViewStep, (j - 1) * ViewStep), i, j in 0..ViewMax
ViewMax == 7

RECURSIVE Pow2(_)
Pow2(n) == IF n = 0 THEN 1 ELSE 2 * Pow2(n - 1)

\* side of the square root rectangle
RootUnit == Pow2(MaxDepthBound + 1)
ViewStep == RootUnit \div 4
\* a viewpoint far outside every root rectangle
FarPoint == <<-4 * RootUnit, -4 * RootUnit>>

Viewpoints ==
    {<<(i - 1) * ViewStep, (j - 1) * ViewStep>> : i \in 0..ViewMax, j \in 0..ViewMax} \cup {FarPoint}

Box2(minX, minY, maxX, maxY) == [min |-> <<minX, minY>>, max |-> <<maxX, maxY>>]

\* the root rectangles a tree is constructed over: a square, a tall and a wide one
BoundsChoices ==
    { Box2(0, 0, RootUnit, RootUnit),
      Box2(0, 0, RootUnit, 2 * RootUnit),
      Box2(0, 0, 2 * RootUnit, RootUnit) }

\* ------------------------------------------------- IndexStitchingMode enum
Full == 0
North == 1
East == 2
South == 4
West == 8
NorthEast == 3
SouthEast == 6
SouthWest == 12
NorthWest == 9

\* the members of the enum
StitchingModes == {Full, North, East, South, West, NorthEast, SouthEast, SouthWest, NorthWest}

\* (mode & bit) !== 0, for a single-bit operand
HasBit(mode, bit) == (mode \div bit) % 2 = 1

\* ------------------------------------------------------------ QuadTreeNode
\* THREE.Box2.getCenter / getSize
GetCenter(b) == <<(b.min[1] + b.max[1]) \div 2, (b.min[2] + b.max[2]) \div 2>>
GetSize(b) == <<b.max[1] - b.min[1], b.max[2] - b.min[2]>>

\* a node is its level and bounds; center, size and id are functions of them
Node(level, bounds) == [level |-> level, bounds |-> bounds]

\* IdGenerator.generate(level, center.x, center.y): the string
\* `lod${level}_x${x}_z${z}` is determined by, and determines, this triple
GenerateIdForNode(node) == <<node.level, GetCenter(node.bounds)[1], GetCenter(node.bounds)[2]>>

\* the root built by the QuadTree constructor
RootNode(bounds) == Node(0, bounds)

VARIABLES
    rootBounds,         \* QuadTree._root.bounds
    maxDepth,           \* QuadTree._maxDepth
    children,           \* node -> its children array, for every node of the tree
    quadTreeNodes,      \* the leaf list of the last update, each with its indexStitchingMode
    position,           \* the viewpoint of the last update
    terrainMetadata,    \* TerrainTileManager._terrainMetadata.levels: the (level, center) entries
    terrainTiles,       \* Terrain._terrainTiles: the active tiles, an array of tile objects
    tiles,              \* the live TerrainTile objects: object -> its fields
    scene,              \* the tile objects attached to the Terrain group (add / remove)
    terrainTileCache,   \* TerrainTileManager._terrainTileCache: id -> tile object
    loadingTileIds,     \* Terrain._loadingTileIds
    requests,           \* the requestTerrainTileForNode calls suspended on a texture load
    textures,           \* the live THREE.Texture objects: object -> its image path and disposed flag
    textureLoads,       \* the log of the loadAsync calls: image path -> called once or again
                        \* (kept only in the behaviours that start with the log switched on)
    lastDisposed,       \* the tile objects the handler that ran last called dispose() on
    lastStep,           \* the handler that ran last: its kind, the tile id it was about, how
                        \* the request it settled ended, the ids an update requested
    workerInbox,        \* the messages posted to the quadtree worker and not yet handled by it
    workerOutbox,       \* the leaf lists the worker posted back and the main thread has not handled
    tileSize,           \* GeometryGenerator.TILE_SIZE: the logical quads per side of a tile
    indexBuffers,       \* GeometryGenerator._indexBuffersForStitchingModes: key -> index array
    geometries,         \* GeometryGenerator._geometriesForStitchingModes: key -> geometry
    returned,           \* the last two results of getGeometryForStitchingMode, newest last
    pc,                 \* where a stepwise insertPosition is: "idle", or in the balance loop of
                        \* the class ("balance") or of the worker script ("workerBalance")
    passes              \* scans the balance loop of the current insertPosition has completed

qtVars == <<rootBounds, maxDepth, children, quadTreeNodes, position>>
tileVars ==
    <<terrainMetadata, terrainTiles, tiles, scene, terrainTileCache, loadingTileIds, requests,
      textures, textureLoads, lastDisposed>>
workerVars == <<workerInbox, workerOutbox>>
geoVars == <<tileSize, indexBuffers, geometries, returned>>
balanceVars == <<pc, passes>>
auxVars == <<workerVars, geoVars, balanceVars>>
vars == <<qtVars, tileVars, lastStep, auxVars>>

\* ------------------------------------------------------------- subdivision
\* createChildNodes with the top-left quadrant built from the bottom-right corners
CreateChildNodes_CopiedQuadrant(node) ==
    LET b == node.bounds
        midPoint == GetCenter(b)
        bottomLeft == Box2(b.min[1], b.min[2], midPoint[1], midPoint[2])
        bottomRight == Box2(midPoint[1], b.min[2], b.max[1], midPoint[2])
        topLeft == Box2(midPoint[1], b.min[2], b.max[1], midPoint[2])
        topRight == Box2(midPoint[1], midPoint[2], b.max[1], b.max[2])
    IN  << Node(node.level + 1, bottomLeft), Node(node.level + 1, bottomRight),
           Node(node.level + 1, topLeft), Node(node.level + 1, topRight) >>

CreateChildNodes(node) ==
    LET b == node.bounds
        midPoint == GetCenter(b)
        bottomLeft == Box2(b.min[1], b.min[2], midPoint[1], midPoint[2])
        bottomRight == Box2(midPoint[1], b.min[2], b.max[1], midPoint[2])
        topLeft == Box2(b.min[1], midPoint[2], midPoint[1], b.max[2])
        topRight == Box2(midPoint[1], midPoint[2], b.max[1], b.max[2])
    IN  << Node(node.level + 1, bottomLeft), Node(node.level + 1, bottomRight),
           Node(node.level + 1, topLeft), Node(node.level + 1, topRight) >>

\* the tree after node.children = createChildNodes(node)
SetChildren(ch, node, kids) ==
    [n \in (DOMAIN ch) \cup {kids[i] : i \in 1..Len(kids)} |->
        IF n = node THEN kids
        ELSE IF n \in DOMAIN ch THEN ch[n] ELSE <<>>]

SplitNode(ch, node, md) ==
    IF Len(ch[node]) > 0 THEN ch
    ELSE IF node.level >= md THEN ch
    ELSE SetChildren(ch, node, CreateChildNodes(node))

\* center.distanceTo(position) < size.x * distanceFactor, compared on the squares
DistanceFactor == 2
DistanceSq(a, b) == (a[1] - b[1]) * (a[1] - b[1]) + (a[2] - b[2]) * (a[2] - b[2])
\* the test without the factor: distanceToNode < node.size.x
IsCloseEnough_NoFactor(node, pos) ==
    DistanceSq(GetCenter(node.bounds), pos) < GetSize(node.bounds)[1] * GetSize(node.bounds)[1]

IsCloseEnough(node, pos) ==
    LET limit == GetSize(node.bounds)[1] * DistanceFactor
    IN  DistanceSq(GetCenter(node.bounds), pos) < limit * limit

RECURSIVE InsertPositionRecursive(_, _, _, _)
RECURSIVE InsertPositionChildren(_, _, _, _, _)
\* insertPositionRecursive without the loop over the children
InsertPositionRecursive_NoDescent(ch, node, pos, md) ==
    IF IsCloseEnough(node, pos) /\ node.level < md THEN SplitNode(ch, node, md) ELSE ch

InsertPositionRecursive(ch, node, pos, md) ==
    LET ch1 == IF IsCloseEnough(node, pos) /\ node.level < md
               THEN SplitNode(ch, node, md) ELSE ch
    IN  InsertPositionChildren(ch1, ch1[node], 1, pos, md)
InsertPositionChildren(ch, kids, i, pos, md) ==
    IF i > Len(kids) THEN ch
    ELSE InsertPositionChildren(InsertPositionRecursive(ch, kids[i], pos, md), kids, i + 1, pos, md)

RECURSIVE GetChildrenRecursive(_, _)
GetChildrenRecursive(ch, node) ==
    IF Len(ch[node]) = 0 THEN <<node>>
    ELSE GetChildrenRecursive(ch, ch[node][1]) \o GetChildrenRecursive(ch, ch[node][2])
         \o GetChildrenRecursive(ch, ch[node][3]) \o GetChildrenRecursive(ch, ch[node][4])

\* --------------------------------------------------------------- balancing
AreEdgeNeighbors(a, b) ==
    LET shareVerticalEdge ==
            /\ (a.max[1] = b.min[1] \/ a.min[1] = b.max[1])
            /\ a.min[2] < b.max[2]
            /\ a.max[2] > b.min[2]
        shareHorizontalEdge ==
            /\ (a.max[2] = b.min[2] \/ a.min[2] = b.max[2])
            /\ a.min[1] < b.max[1]
            /\ a.max[1] > b.min[1]
    IN  shareVerticalEdge \/ shareHorizontalEdge

AbsDiff(x, y) == IF x < y THEN y - x ELSE x - y

\* balance with `diff <= 2` as its "already OK" test
NeedsSplit_OffByOne(a, b) == AreEdgeNeighbors(a.bounds, b.bounds) /\ AbsDiff(a.level, b.level) > 2

\* the pair (a, b) of one scan makes balance split the coarser of the two
NeedsSplit(a, b) == AreEdgeNeighbors(a.bounds, b.bounds) /\ AbsDiff(a.level, b.level) > 1
Coarser(a, b) == IF a.level < b.level THEN a ELSE b

RECURSIVE SplitAll(_, _, _)
SplitAll(ch, nodes, md) ==
    IF nodes = {} THEN ch
    ELSE LET n == CHOOSE x \in nodes : TRUE
         IN  SplitAll(SplitNode(ch, n, md), nodes \ {n}, md)

\* the do-while body with changed never reset to false
BalancePass_ChangedStaysSet(ch, root, md) ==
    LET leaves == GetChildrenRecursive(ch, root)
        toSplit == { Coarser(leaves[p[1]], leaves[p[2]]) :
                        p \in { q \in (1..Len(leaves)) \X (1..Len(leaves)) :
                                    q[1] < q[2] /\ NeedsSplit(leaves[q[1]], leaves[q[2]]) } }
    IN  [changed |-> TRUE, ch |-> SplitAll(ch, toSplit, md)]

\* one iteration of the do-while body: a scan over all pairs i < j of the leaf
\* list taken at its start.  The list is not refreshed during the scan and
\* splitNode only assigns the children of the node it is given, so the scan
\* splits exactly the coarser node of every offending pair.
BalancePass(ch, root, md) ==
    LET leaves == GetChildrenRecursive(ch, root)
        toSplit == { Coarser(leaves[i], leaves[j]) :
                        <<i, j>> \in { p \in (1..Len(leaves)) \X (1..Len(leaves)) :
                                        p[1] < p[2] /\ NeedsSplit(leaves[p[1]], leaves[p[2]]) } }
    IN  [changed |-> toSplit # {}, ch |-> SplitAll(ch, toSplit, md)]

RECURSIVE Balance(_, _, _)
Balance(ch, root, md) ==
    LET pass == BalancePass(ch, root, md)
    IN  IF pass.changed THEN Balance(pass.ch, root, md) ELSE pass.ch

\* insertPosition without the assignment that clears the root's children
ClearChildren_Keeps(ch, root) == ch

\* this._root.children = []: the tree is the root alone
ClearChildren(ch, root) == [n \in {root} |-> <<>>]

\* insertPosition that subdivides the tree of the insert before it
InsertPosition_NoClear(ch, root, pos, md) ==
    Balance(InsertPositionRecursive(ch, root, pos, md), root, md)

\* QuadTree.insertPosition: clear the root's children, subdivide, balance
InsertPosition(ch, root, pos, md) ==
    Balance(InsertPositionRecursive(ClearChildren(ch, root), root, pos, md), root, md)

\* --------------------------------------------------------------- stitching
\* updateStitchingModeForNode with North taken as the max-Y edge and South as the min-Y edge
StitchingBit_NorthIsMaxY(node, other) ==
    LET my == node.bounds
        ot == other.bounds
        touchesNorthEdge == my.max[2] = ot.min[2] /\ my.min[1] < ot.max[1] /\ my.max[1] > ot.min[1]
        touchesSouthEdge == my.min[2] = ot.max[2] /\ my.min[1] < ot.max[1] /\ my.max[1] > ot.min[1]
        touchesWestEdge == my.min[1] = ot.max[1] /\ my.min[2] < ot.max[2] /\ my.max[2] > ot.min[2]
        touchesEastEdge == my.max[1] = ot.min[1] /\ my.min[2] < ot.max[2] /\ my.max[2] > ot.min[2]
    IN  IF other = node THEN 0
        ELSE IF other.level >= node.level THEN 0
        ELSE IF ~AreEdgeNeighbors(my, ot) THEN 0
        ELSE IF touchesSouthEdge THEN South
        ELSE IF touchesNorthEdge THEN North
        ELSE IF touchesWestEdge THEN West
        ELSE IF touchesEastEdge THEN East
        ELSE 0

\* updateStitchingModeForNode skipping only the finer others (`other.level > node.level`)
StitchingBit_SameLevelStitches(node, other) ==
    LET my == node.bounds
        ot == other.bounds
        touchesSouthEdge == my.max[2] = ot.min[2] /\ my.min[1] < ot.max[1] /\ my.max[1] > ot.min[1]
        touchesNorthEdge == my.min[2] = ot.max[2] /\ my.min[1] < ot.max[1] /\ my.max[1] > ot.min[1]
        touchesWestEdge == my.min[1] = ot.max[1] /\ my.min[2] < ot.max[2] /\ my.max[2] > ot.min[2]
        touchesEastEdge == my.max[1] = ot.min[1] /\ my.min[2] < ot.max[2] /\ my.max[2] > ot.min[2]
    IN  IF other = node THEN 0
        ELSE IF other.level > node.level THEN 0
        ELSE IF ~AreEdgeNeighbors(my, ot) THEN 0
        ELSE IF touchesSouthEdge THEN South
        ELSE IF touchesNorthEdge THEN North
        ELSE IF touchesWestEdge THEN West
        ELSE IF touchesEastEdge THEN East
        ELSE 0

\* updateStitchingModeForNode without the test of the other's level
StitchingBit_AnyLevel(node, other) ==
    LET my == node.bounds
        ot == other.bounds
        touchesSouthEdge == my.max[2] = ot.min[2] /\ my.min[1] < ot.max[1] /\ my.max[1] > ot.min[1]
        touchesNorthEdge == my.min[2] = ot.max[2] /\ my.min[1] < ot.max[1] /\ my.max[1] > ot.min[1]
        touchesWestEdge == my.min[1] = ot.max[1] /\ my.min[2] < ot.max[2] /\ my.max[2] > ot.min[2]
        touchesEastEdge == my.max[1] = ot.min[1] /\ my.min[2] < ot.max[2] /\ my.max[2] > ot.min[2]
    IN  IF other = node THEN 0
        ELSE IF ~AreEdgeNeighbors(my, ot) THEN 0
        ELSE IF touchesSouthEdge THEN South
        ELSE IF touchesNorthEdge THEN North
        ELSE IF touchesWestEdge THEN West
        ELSE IF touchesEastEdge THEN East
        ELSE 0

\* the bit one `other` contributes to the mode of `node` (0: none)
StitchingBit(node, other) ==
    LET my == node.bounds
        ot == other.bounds
        touchesSouthEdge == my.max[2] = ot.min[2] /\ my.min[1] < ot.max[1] /\ my.max[1] > ot.min[1]
        touchesNorthEdge == my.min[2] = ot.max[2] /\ my.min[1] < ot.max[1] /\ my.max[1] > ot.min[1]
        touchesWestEdge == my.min[1] = ot.max[1] /\ my.min[2] < ot.max[2] /\ my.max[2] > ot.min[2]
        touchesEastEdge == my.max[1] = ot.min[1] /\ my.min[2] < ot.max[2] /\ my.max[2] > ot.min[2]
    IN  IF other = node THEN 0
        ELSE IF other.level >= node.level THEN 0
        ELSE IF ~AreEdgeNeighbors(my, ot) THEN 0
        ELSE IF touchesSouthEdge THEN South
        ELSE IF touchesNorthEdge THEN North
        ELSE IF touchesWestEdge THEN West
        ELSE IF touchesEastEdge THEN East
        ELSE 0

\* the value updateStitchingModeForNode assigns to node.indexStitchingMode: the
\* bitwise OR, over the list, of the bit each other node contributes
UpdateStitchingModeForNode(node, allNodes) ==
    LET bits == {StitchingBit(node, allNodes[i]) : i \in 1..Len(allNodes)}
        Bit(b) == IF b \in bits THEN b ELSE 0
    IN  Bit(North) + Bit(East) + Bit(South) + Bit(West)

\* Terrain.update, lines 153-158: the leaves of the rebuilt tree with their modes
LeafSnapshot(ch, root) ==
    LET leaves == GetChildrenRecursive(ch, root)
    IN  [i \in 1..Len(leaves) |->
            [node |-> leaves[i], id |-> GenerateIdForNode(leaves[i]),
             indexStitchingMode |-> UpdateStitchingModeForNode(leaves[i], leaves)]]

\* ------------------------------------------------------- GeometryGenerator
\* the keys `for (const modeKey in IndexStitchingMode)` visits: the numeric enum
\* has a reverse mapping, so its keys are the nine numbers and the nine names;
\* Number(modeKey) is NaN for a name
NaN == -2
IndexStitchingModeKeys ==
    {[key |-> "0", number |-> Full], [key |-> "1", number |-> North], [key |-> "2", number |-> East],
     [key |-> "4", number |-> South], [key |-> "8", number |-> West], [key |-> "3", number |-> NorthEast],
     [key |-> "6", number |-> SouthEast], [key |-> "12", number |-> SouthWest],
     [key |-> "9", number |-> NorthWest]}
    \cup {[key |-> k, number |-> NaN] :
            k \in {"Full", "North", "East", "South", "West",
                   "NorthEast", "SouthEast", "SouthWest", "NorthWest"}}

\* the initialisation loops without the isNaN test
InitializedModes_NoNaNTest == {k.number : k \in IndexStitchingModeKeys}

\* the modes the two initialisation loops set an entry for
InitializedModes == {k.number : k \in {kk \in IndexStitchingModeKeys : kk.number # NaN}}

\* idx(x, y) and the nine vertices of the 2x2 cell block of a logical quad
Idx(gridRes, x, y) == y * (gridRes + 1) + x
QuadVertices(gridRes, x, y) ==
    [a |-> Idx(gridRes, x, y), b |-> Idx(gridRes, x + 1, y), c |-> Idx(gridRes, x + 2, y),
     h |-> Idx(gridRes, x, y + 1), i |-> Idx(gridRes, x + 1, y + 1), d |-> Idx(gridRes, x + 2, y + 1),
     g |-> Idx(gridRes, x, y + 2), f |-> Idx(gridRes, x + 1, y + 2), e |-> Idx(gridRes, x + 2, y + 2)]

\* indices.push(p, q, i) for every two neighbours p, q of the ring
Fan(v, ring) ==
    [k \in 1..(3 * (Len(ring) - 1)) |->
        LET t == (k - 1) \div 3 + 1
            r == (k - 1) % 3
        IN  IF r = 0 THEN v[ring[t]] ELSE IF r = 1 THEN v[ring[t + 1]] ELSE v.i]

\* the north edge generator pushing the full fan
GenerateIndexBufferForStitchingModeNorthEdge_FullFan(gridRes, x, y) ==
    Fan(QuadVertices(gridRes, x, y), <<"a", "b", "c", "d", "e", "f", "g", "h", "a">>)

GenerateIndexBufferForStitchingModeNorthEdge(gridRes, x, y) ==
    Fan(QuadVertices(gridRes, x, y), <<"a", "b", "c", "d", "e", "g", "h", "a">>)
GenerateIndexBufferForStitchingModeWestEdge(gridRes, x, y) ==
    Fan(QuadVertices(gridRes, x, y), <<"a", "b", "c", "d", "e", "f", "g", "a">>)
GenerateIndexBufferForStitchingModeEastEdge(gridRes, x, y) ==
    Fan(QuadVertices(gridRes, x, y), <<"a", "b", "c", "e", "f", "g", "h", "a">>)
GenerateIndexBufferForStitchingModeSouthEdge(gridRes, x, y) ==
    Fan(QuadVertices(gridRes, x, y), <<"a", "c", "d", "e", "f", "g", "h", "a">>)
GenerateIndexBufferForStitchingModeNorthWestCorner(gridRes, x, y) ==
    Fan(QuadVertices(gridRes, x, y), <<"a", "b", "c", "d", "e", "g", "a">>)
GenerateIndexBufferForStitchingModeSouthEastCorner(gridRes, x, y) ==
    Fan(QuadVertices(gridRes, x, y), <<"a", "c", "e", "f", "g", "h", "a">>)
GenerateIndexBufferForStitchingModeSouthWestCorner(gridRes, x, y) ==
    Fan(QuadVertices(gridRes, x, y), <<"a", "c", "d", "e", "f", "g", "a">>)
GenerateIndexBufferForStitchingModeFull(gridRes, x, y) ==
    Fan(QuadVertices(gridRes, x, y), <<"a", "b", "c", "d", "e", "f", "g", "h", "a">>)
GenerateIndexBufferForStitchingModeNorthEastCorner(gridRes, x, y) ==
    Fan(QuadVertices(gridRes, x, y), <<"a", "b", "c", "e", "g", "h", "a">>)

\* the loop body with the tests of the edges before the tests of the corners
QuadIndices_EdgesBeforeCorners(mode, gridRes, x, y) ==
    LET stitchNorthEdge == mode \in {North, NorthWest, NorthEast} /\ y = gridRes - 2
        stitchWestEdge == mode \in {West, SouthWest, NorthWest} /\ x = 0
        stitchEastEdge == mode \in {East, NorthEast, SouthEast} /\ x = gridRes - 2
        stitchSouthEdge == mode \in {South, SouthWest, SouthEast} /\ y = 0
        stitchSouthWestCorner == mode = SouthWest /\ x = 0 /\ y = 0
        stitchSouthEastCorner == mode = SouthEast /\ x = gridRes - 2 /\ y = 0
        stitchNorthWestCorner == mode = NorthWest /\ x = 0 /\ y = gridRes - 2
        stitchNorthEastCorner == mode = NorthEast /\ x = gridRes - 2 /\ y = gridRes - 2
    IN  IF stitchNorthEdge THEN GenerateIndexBufferForStitchingModeNorthEdge(gridRes, x, y)
        ELSE IF stitchWestEdge THEN GenerateIndexBufferForStitchingModeWestEdge(gridRes, x, y)
        ELSE IF stitchEastEdge THEN GenerateIndexBufferForStitchingModeEastEdge(gridRes, x, y)
        ELSE IF stitchSouthEdge THEN GenerateIndexBufferForStitchingModeSouthEdge(gridRes, x, y)
        ELSE IF stitchSouthWestCorner THEN GenerateIndexBufferForStitchingModeSouthWestCorner(gridRes, x, y)
        ELSE IF stitchNorthEastCorner THEN GenerateIndexBufferForStitchingModeNorthEastCorner(gridRes, x, y)
        ELSE IF stitchNorthWestCorner THEN GenerateIndexBufferForStitchingModeNorthWestCorner(gridRes, x, y)
        ELSE IF stitchSouthEastCorner THEN GenerateIndexBufferForStitchingModeSouthEastCorner(gridRes, x, y)
        ELSE GenerateIndexBufferForStitchingModeFull(gridRes, x, y)

\* the body of the two loops of generateIndexBufferForStitchingMode: the
\* indices pushed for the logical quad at (x, y)
QuadIndices(mode, gridRes, x, y) ==
    LET stitchNorthEdge == mode \in {North, NorthWest, NorthEast} /\ y = gridRes - 2
        stitchWestEdge == mode \in {West, SouthWest, NorthWest} /\ x = 0
        stitchEastEdge == mode \in {East, NorthEast, SouthEast} /\ x = gridRes - 2
        stitchSouthEdge == mode \in {South, SouthWest, SouthEast} /\ y = 0
        stitchSouthWestCorner == mode = SouthWest /\ x = 0 /\ y = 0
        stitchSouthEastCorner == mode = SouthEast /\ x = gridRes - 2 /\ y = 0
        stitchNorthWestCorner == mode = NorthWest /\ x = 0 /\ y = gridRes - 2
        stitchNorthEastCorner == mode = NorthEast /\ x = gridRes - 2 /\ y = gridRes - 2
    IN  IF stitchSouthWestCorner THEN GenerateIndexBufferForStitchingModeSouthWestCorner(gridRes, x, y)
        ELSE IF stitchNorthEastCorner THEN GenerateIndexBufferForStitchingModeNorthEastCorner(gridRes, x, y)
        ELSE IF stitchNorthWestCorner THEN GenerateIndexBufferForStitchingModeNorthWestCorner(gridRes, x, y)
        ELSE IF stitchSouthEastCorner THEN GenerateIndexBufferForStitchingModeSouthEastCorner(gridRes, x, y)
        ELSE IF stitchNorthEdge THEN GenerateIndexBufferForStitchingModeNorthEdge(gridRes, x, y)
        ELSE IF stitchWestEdge THEN GenerateIndexBufferForStitchingModeWestEdge(gridRes, x, y)
        ELSE IF stitchEastEdge THEN GenerateIndexBufferForStitchingModeEastEdge(gridRes, x, y)
        ELSE IF stitchSouthEdge THEN GenerateIndexBufferForStitchingModeSouthEdge(gridRes, x, y)
        ELSE GenerateIndexBufferForStitchingModeFull(gridRes, x, y)

\* the loops `for y ... for x ...` from the quad with number q on (quads are
\* numbered row by row, the row y = 0 first)
RECURSIVE GenerateFromQuad(_, _, _)
GenerateFromQuad(mode, resolution, q) ==
    IF q >= resolution * resolution THEN <<>>
    ELSE QuadIndices(mode, 2 * resolution, 2 * (q % resolution), 2 * (q \div resolution))
            \o GenerateFromQuad(mode, resolution, q + 1)

GenerateIndexBufferForStitchingMode(mode, resolution) == GenerateFromQuad(mode, resolution, 0)

\* intitializeIndexBufferForStitchingModes
IntitializeIndexBufferForStitchingModes(size) ==
    [mode \in InitializedModes |-> GenerateIndexBufferForStitchingMode(mode, size)]

\* createRegularGridGeometry(1, mode), rotated: a grid of (gridRes + 1)^2
\* vertices that refers to the index buffer kept for the mode; no bounding
\* volume is computed for it
CreateRegularGridGeometry(size, mode) ==
    [vertices |-> (2 * size + 1) * (2 * size + 1), index |-> mode, disposed |-> FALSE,
     boundingBox |-> "null"]

\* initalizeGeometriesForStitchingModes
InitalizeGeometriesForStitchingModes(size) ==
    [mode \in InitializedModes |-> CreateRegularGridGeometry(size, mode)]

\* the state after GeometryGenerator.initialize() with TILE_SIZE = size
GeneratorInitialized(size) ==
    /\ tileSize = size
    /\ indexBuffers = IntitializeIndexBufferForStitchingModes(size)
    /\ geometries = InitalizeGeometriesForStitchingModes(size)
    /\ returned = <<>>

\* ---------------------------------------------------------- tile lifecycle
NoTile == <<>>
NoTexture == <<>>
NoId == <<>>
Step(kind, id, outcome, requested) ==
    [kind |-> kind, id |-> id, outcome |-> outcome, requested |-> requested]

\* a bag of suspended requests: request -> number of suspended calls
BagAdd(bag, r) ==
    [x \in (DOMAIN bag) \cup {r} |-> IF x = r THEN (IF r \in DOMAIN bag THEN bag[r] + 1 ELSE 1) ELSE bag[x]]
BagRemove(bag, r) ==
    IF bag[r] > 1 THEN [bag EXCEPT ![r] = @ - 1]
    ELSE [x \in (DOMAIN bag) \ {r} |-> bag[x]]

\* Array.prototype.indexOf / splice(index, 1) / find
IndexOf(seq, x) == CHOOSE i \in 1..Len(seq) : seq[i] = x /\ \A j \in 1..(i - 1) : seq[j] # x
Splice(seq, index) == [i \in 1..(Len(seq) - 1) |-> IF i < index THEN seq[i] ELSE seq[i + 1]]
\* the lookup of an existing tile that finds none
HasTileFor_Never(st, id) == FALSE

HasTileFor(st, id) == \E i \in 1..Len(st.terrainTiles) : st.tiles[st.terrainTiles[i]].identifier = id
FindTileFor(st, id) ==
    st.terrainTiles[CHOOSE i \in 1..Len(st.terrainTiles) :
        /\ st.tiles[st.terrainTiles[i]].identifier = id
        /\ \A j \in 1..(i - 1) : st.tiles[st.terrainTiles[j]].identifier # id]

\* a fresh object: the k-th live object made for a tile id or an image path is
\* named <<id, k>> or <<path, k>>, with the smallest k that is free
NewObject(heap, key) ==
    CHOOSE t \in {<<key, k>> : k \in 1..(Cardinality(DOMAIN heap) + 1)} :
        t \notin DOMAIN heap /\ \A j \in 1..(t[2] - 1) : <<key, j>> \in DOMAIN heap
NewTile(heap, id) == NewObject(heap, id)
NewTexture(heap, path) == NewObject(heap, path)

\* the objects something still refers to (a tile that was disposed by the
\* running handler is kept until the next handler has run)
Referenced(st) ==
    {st.terrainTiles[i] : i \in 1..Len(st.terrainTiles)} \cup st.scene
        \cup {st.terrainTileCache[k] : k \in DOMAIN st.terrainTileCache} \cup st.lastDisposed
ReferencedTextures(st, live) ==
    {st.tiles[t].uDopTexture : t \in live} \cup {st.tiles[t].uDemTexture : t \in live}
        \cup {r.dopTexture : r \in {q \in DOMAIN st.requests : q.stage = "dem"}}
Collect(st) ==
    LET live == (DOMAIN st.tiles) \cap Referenced(st)
        liveTextures == (DOMAIN st.textures) \cap ReferencedTextures(st, live)
    IN  [st EXCEPT !.tiles = [t \in live |-> st.tiles[t]],
                   !.textures = [x \in liveTextures |-> st.textures[x]]]

\* TerrainLevelMetadata.dopImagePath / demImagePath of the catalog entry of a
\* tile id: every entry names its own two image files
DopImagePath(id) == <<"dop", id>>
DemImagePath(id) == <<"dem", id>>

\* App.instance.textureLoader.loadAsync(path) is called: the loader starts a
\* load for the path, whatever was loaded before
StartLoad(log, path) ==
    IF ~log.recorded THEN log
    ELSE [log EXCEPT !.loads =
            [p \in (DOMAIN @) \cup {path} |->
                IF p = path THEN (IF path \in DOMAIN @ THEN "again" ELSE "once") ELSE @[p]]]

\* the load resolved: a new THREE.Texture for the path
AddTexture(heap, x, path) ==
    [y \in (DOMAIN heap) \cup {x} |-> IF y = x THEN [path |-> path, disposed |-> FALSE] ELSE heap[y]]

\* TerrainTileManager.removeTileFromCache(tile)
RemoveTileFromCache(cache, tile) == [k \in (DOMAIN cache) \ {tile.identifier} |-> cache[k]]

\* TerrainTile.dispose
Dispose(tile) == [tile EXCEPT !.disposed = TRUE]

\* dispose that also calls dispose() on the two textures of the tile
DisposedTextures_Both(tile) == {tile.uDopTexture, tile.uDemTexture}

\* the textures TerrainTile.dispose calls dispose() on: it removes the helper,
\* the mesh and the line mesh and disposes the line geometry and the material
DisposedTextures(tile) == {}

DisposeTextures(heap, released) ==
    [x \in DOMAIN heap |-> IF x \in released THEN [heap[x] EXCEPT !.disposed = TRUE] ELSE heap[x]]

\* GeometryGenerator.getGeometryForStitchingMode: the shared geometry kept
\* under the key `mode`, named by its key; NoGeometry (undefined) for any other key
NoGeometry == -1
GetGeometryForStitchingMode(mode) == IF mode \in DOMAIN geometries THEN mode ELSE NoGeometry

\* TerrainTile.updateStitchingModeDependentResources: the mesh gets the shared
\* geometry of the tile's mode, unless there is none
UpdateStitchingModeDependentResources(tile) ==
    LET newGeometry == GetGeometryForStitchingMode(tile.stitchingMode)
    IN  IF newGeometry = NoGeometry THEN tile ELSE [tile EXCEPT !.geometry = newGeometry]

\* onStitchingModeChanged without the early return for an unchanged mode
OnStitchingModeChanged_AlwaysSwaps(tile, mode) ==
    UpdateStitchingModeDependentResources([tile EXCEPT !.stitchingMode = mode, !.swapped = TRUE])

\* TerrainTile.onStitchingModeChanged; `swapped` records whether the call
\* went on to updateStitchingModeDependentResources
OnStitchingModeChanged(tile, mode) ==
    IF tile.stitchingMode = mode THEN [tile EXCEPT !.swapped = FALSE]
    ELSE UpdateStitchingModeDependentResources([tile EXCEPT !.stitchingMode = mode, !.swapped = TRUE])

\* the removal loop: for (const tile of this._terrainTiles) { ... splice ... }.
\* The array iterator holds an index i and re-reads the array's length on
\* every step, so the element that slides into slot i after a splice is not visited.
RECURSIVE RemoveStaleTiles(_, _, _)
RemoveStaleTiles(st, nodes, i) ==
    IF i > Len(st.terrainTiles) THEN st
    ELSE LET tile == st.terrainTiles[i]
             foundNode == \E k \in 1..Len(nodes) : nodes[k].id = st.tiles[tile].identifier
         IN  IF foundNode THEN RemoveStaleTiles(st, nodes, i + 1)
             ELSE RemoveStaleTiles(
                    [st EXCEPT !.terrainTiles = Splice(@, IndexOf(@, tile)),
                               !.scene = @ \ {tile},
                               !.terrainTileCache = RemoveTileFromCache(@, st.tiles[tile]),
                               !.tiles[tile] = Dispose(@),
                               !.textures = DisposeTextures(@, DisposedTextures(st.tiles[tile])),
                               !.lastDisposed = @ \cup {tile}],
                    nodes, i + 1)

\* TerrainTileManager.getTileInfoForNode: the entries matching level and center
GetTileInfoForNode(metadata, node) ==
    {t \in metadata : t = GenerateIdForNode(node)}

\* the .then handler with the id released only after the null check
ThenHandler_KeepsIdOnNone(st, id, tile) ==
    IF tile = NoTile THEN st
    ELSE [st EXCEPT !.loadingTileIds = @ \ {id},
                    !.terrainTiles = Append(@, tile), !.scene = @ \cup {tile}]

\* the .then handler without this.add(tile)
ThenHandler_NoAdd(st, id, tile) ==
    LET st1 == [st EXCEPT !.loadingTileIds = @ \ {id}]
    IN  IF tile = NoTile THEN st1
        ELSE [st1 EXCEPT !.terrainTiles = Append(@, tile)]

\* the .then handler of a request that resolved with `tile`
ThenHandler(st, id, tile) ==
    LET st1 == [st EXCEPT !.loadingTileIds = @ \ {id}]
    IN  IF tile = NoTile THEN st1
        ELSE [st1 EXCEPT !.terrainTiles = Append(@, tile), !.scene = @ \cup {tile}]

\* TerrainTileManager.requestTerrainTileForNode up to its first await: a cache
\* hit or a missing catalog entry resolves the promise at once (its handler runs
\* when the frame's code has returned), otherwise the call suspends on the
\* first texture load
RequestTerrainTileForNode(st, entry) ==
    IF entry.id \in DOMAIN st.terrainTileCache
    THEN [st EXCEPT !.resolved = Append(@, [id |-> entry.id, tile |-> st.terrainTileCache[entry.id]])]
    ELSE IF GetTileInfoForNode(st.terrainMetadata, entry.node) = {}
    THEN [st EXCEPT !.resolved = Append(@, [id |-> entry.id, tile |-> NoTile])]
    ELSE [st EXCEPT !.requests = BagAdd(@, [id |-> entry.id, stage |-> "dop",
                                             stitchingMode |-> entry.indexStitchingMode,
                                             dopTexture |-> NoTexture]),
                    !.textureLoads = StartLoad(@, DopImagePath(entry.id))]

\* the loading check without effect
IsLoading_Never(st, id) == FALSE

\* this._loadingTileIds.has(node.id)
IsLoading(st, id) == id \in st.loadingTileIds

\* the second loop of updateFromQuadTreeNodes
RECURSIVE SyncTiles(_, _, _)
SyncTiles(st, nodes, k) ==
    IF k > Len(nodes) THEN st
    ELSE LET entry == nodes[k]
         IN  IF HasTileFor(st, entry.id)
             THEN SyncTiles([st EXCEPT !.tiles[FindTileFor(st, entry.id)] =
                                OnStitchingModeChanged(@, entry.indexStitchingMode)], nodes, k + 1)
             ELSE IF IsLoading(st, entry.id)
             THEN SyncTiles(st, nodes, k + 1)
             ELSE SyncTiles(RequestTerrainTileForNode(
                                [st EXCEPT !.loadingTileIds = @ \cup {entry.id},
                                           !.requested = @ \cup {entry.id}], entry), nodes, k + 1)

RECURSIVE RunThenHandlers(_, _)
RunThenHandlers(st, i) ==
    IF i > Len(st.resolved) THEN st
    ELSE RunThenHandlers(ThenHandler(st, st.resolved[i].id, st.resolved[i].tile), i + 1)

\* Terrain.updateFromQuadTreeNodes, and the handlers of the requests it resolved
UpdateFromQuadTreeNodes(st, nodes) ==
    Collect(RunThenHandlers(SyncTiles(RemoveStaleTiles(st, nodes, 1), nodes, 1), 1))

TileState ==
    [terrainMetadata |-> terrainMetadata, terrainTiles |-> terrainTiles, tiles |-> tiles,
     scene |-> scene, terrainTileCache |-> terrainTileCache, loadingTileIds |-> loadingTileIds,
     requests |-> requests, textures |-> textures, textureLoads |-> textureLoads,
     lastDisposed |-> {}, resolved |-> <<>>, requested |-> {}]

SetTileState(st) ==
    /\ terrainTiles' = st.terrainTiles
    /\ tiles' = st.tiles
    /\ scene' = st.scene
    /\ terrainTileCache' = st.terrainTileCache
    /\ loadingTileIds' = st.loadingTileIds
    /\ requests' = st.requests
    /\ textures' = st.textures
    /\ textureLoads' = st.textureLoads
    /\ lastDisposed' = st.lastDisposed
    /\ UNCHANGED terrainMetadata

\* --------------------------------------------------------- the whole system
\* deepest level of a catalog entry, and the most entries a catalog has
MaxCatalogLevel == 1
MaxCatalogEntries == 2

\* the square root rectangle of the catalog
CatalogBounds == Box2(0, 0, RootUnit, RootUnit)

RECURSIVE NodesBelow(_, _)
NodesBelow(node, depth) ==
    IF depth = 0 THEN {node}
    ELSE {node} \cup UNION {NodesBelow(CreateChildNodes(node)[i], depth - 1) : i \in 1..4}

Catalogs ==
    {c \in SUBSET {GenerateIdForNode(n) : n \in NodesBelow(RootNode(CatalogBounds), MaxCatalogLevel)} :
        Cardinality(c) \in 1..MaxCatalogEntries}

\* Terrain.maxLevel
MaxLevel(metadata) == CHOOSE l \in {t[1] : t \in metadata} : \A t \in metadata : t[1] <= l

\* the viewpoints of the camera: the centre of the terrain, a point outside its
\* lower left corner, and the far point
CameraPositions == {GetCenter(CatalogBounds), <<-ViewStep, -ViewStep>>, FarPoint}

Init ==
    /\ terrainMetadata \in Catalogs
    /\ rootBounds = CatalogBounds
    /\ maxDepth = MaxLevel(terrainMetadata)
    /\ children = [n \in {RootNode(rootBounds)} |-> <<>>]
    /\ quadTreeNodes = <<>>
    /\ position = <<0, 0>>
    /\ terrainTiles = <<>>
    /\ tiles = <<>>
    /\ scene = {}
    /\ terrainTileCache = <<>>
    /\ loadingTileIds = {}
    /\ requests = <<>>
    /\ textures = <<>>
    /\ textureLoads = [recorded |-> FALSE, loads |-> <<>>]
    /\ lastDisposed = {}
    /\ lastStep = Step("init", NoId, "", {})
    /\ workerInbox = <<>>
    /\ workerOutbox = <<>>
    /\ GeneratorInitialized(1)
    /\ pc = "idle"
    /\ passes = 0

\* Terrain.update: rebuild the tree, compute the modes, update the tiles
Update(pos) ==
    LET root == RootNode(rootBounds)
        ch == InsertPosition(children, root, pos, maxDepth)
        nodes == LeafSnapshot(ch, root)
        st == UpdateFromQuadTreeNodes(TileState, nodes)
    IN  /\ children' = ch
        /\ quadTreeNodes' = nodes
        /\ position' = pos
        /\ SetTileState(st)
        /\ lastStep' = Step("update", NoId, "", st.requested)
        /\ UNCHANGED <<rootBounds, maxDepth, auxVars>>

\* TerrainTile.recomputeBoundingSphere, called by the constructor: the bounding
\* box and the bounding sphere of the geometry of the tile's mesh are set from
\* the terrain's height range.  With no geometry for the mode the mesh has a
\* geometry of its own.
RecomputeBoundingSphere(geos, geometry) ==
    IF geometry = NoGeometry THEN geos
    ELSE [geos EXCEPT ![geometry].boundingBox = "heightScale"]

\* a tile built when only the first texture is there
NewTerrainTile_BeforeDem(r, demTexture) ==
    [identifier |-> r.id, stitchingMode |-> r.stitchingMode,
     geometry |-> GetGeometryForStitchingMode(r.stitchingMode),
     swapped |-> FALSE, disposed |-> FALSE,
     uDopTexture |-> r.dopTexture, uDemTexture |-> NoTexture]

\* new TerrainTile(params): the tile of the request r, with the shared geometry
\* of its mode, a new material and the two loaded textures in its uniforms
NewTerrainTile(r, demTexture) ==
    [identifier |-> r.id, stitchingMode |-> r.stitchingMode,
     geometry |-> GetGeometryForStitchingMode(r.stitchingMode),
     swapped |-> FALSE, disposed |-> FALSE,
     uDopTexture |-> r.dopTexture, uDemTexture |-> demTexture]

\* createTerrainTile: the first loadAsync resolved, the call suspends on the second
DopTextureLoaded(r) ==
    /\ r \in DOMAIN requests
    /\ r.stage = "dop"
    /\ LET dopTexture == NewTexture(textures, DopImagePath(r.id))
           st == [TileState EXCEPT
                    !.textures = AddTexture(@, dopTexture, DopImagePath(r.id)),
                    !.requests = BagAdd(BagRemove(@, r),
                                        [r EXCEPT !.stage = "dem", !.dopTexture = dopTexture]),
                    !.textureLoads = StartLoad(@, DemImagePath(r.id))]
       IN  SetTileState(Collect(st))
    /\ lastStep' = Step("dopLoaded", r.id, "", {})
    /\ UNCHANGED <<qtVars, auxVars>>

\* the second loadAsync resolved: the tile is constructed and cached, the
\* request resolves with it and its .then handler runs
DemTextureLoaded(r) ==
    /\ r \in DOMAIN requests
    /\ r.stage = "dem"
    /\ LET tile == NewTile(tiles, r.id)
           demTexture == NewTexture(textures, DemImagePath(r.id))
           st == [TileState EXCEPT
                    !.requests = BagRemove(@, r),
                    !.textures = AddTexture(@, demTexture, DemImagePath(r.id)),
                    !.tiles = [t \in (DOMAIN tiles) \cup {tile} |->
                                IF t = tile THEN NewTerrainTile(r, demTexture) ELSE tiles[t]],
                    !.terrainTileCache = [k \in (DOMAIN terrainTileCache) \cup {r.id} |->
                                            IF k = r.id THEN tile ELSE terrainTileCache[k]]]
       IN  SetTileState(Collect(ThenHandler(st, r.id, tile)))
    /\ geometries' = RecomputeBoundingSphere(geometries, GetGeometryForStitchingMode(r.stitchingMode))
    /\ lastStep' = Step("created", r.id, "tile", {})
    /\ UNCHANGED <<qtVars, workerVars, balanceVars, tileSize, indexBuffers, returned>>

\* a loadAsync rejected: createTerrainTile and requestTerrainTileForNode reject
\* with it, nothing catches it, and the .then handler (fulfilment only) never runs
TextureLoadFailed(r) ==
    /\ r \in DOMAIN requests
    /\ SetTileState(Collect([TileState EXCEPT !.requests = BagRemove(@, r)]))
    /\ lastStep' = Step("textureFailed", r.id, "rejected", {})
    /\ UNCHANGED <<qtVars, auxVars>>

Next ==
    \/ \E pos \in CameraPositions : Update(pos)
    \/ \E r \in DOMAIN requests : DopTextureLoaded(r)
    \/ \E r \in DOMAIN requests : DemTextureLoaded(r)
    \/ \E r \in DOMAIN requests : TextureLoadFailed(r)

Spec == Init /\ [][Next]_vars

\* ------------------------------------ the revision that never empties the cache
\* TerrainTile.dispose of the revision with public fields: it disposes the mesh
\* geometry, the line geometry, the material and the two textures
DisposedTexturesOfTile(tile) == {tile.uDopTexture, tile.uDemTexture}

\* the removal loop of the revision whose manager keeps _terrainTileCache as an
\* array that is only pushed to: the tile is taken out of the scene and of
\* _terrainTiles and disposed, and stays in the cache
RECURSIVE RemoveStaleTilesKeepingCache(_, _, _)
RemoveStaleTilesKeepingCache(st, nodes, i) ==
    IF i > Len(st.terrainTiles) THEN st
    ELSE LET tile == st.terrainTiles[i]
             foundNode == \E k \in 1..Len(nodes) : nodes[k].id = st.tiles[tile].identifier
         IN  IF foundNode THEN RemoveStaleTilesKeepingCache(st, nodes, i + 1)
             ELSE RemoveStaleTilesKeepingCache(
                    [st EXCEPT !.scene = @ \ {tile},
                               !.terrainTiles = Splice(@, IndexOf(@, tile)),
                               !.tiles[tile] = Dispose(@),
                               !.textures = DisposeTextures(@, DisposedTexturesOfTile(st.tiles[tile])),
                               !.lastDisposed = @ \cup {tile}],
                    nodes, i + 1)

\* updateFromQuadTreeNodes of that revision, and the handlers of the requests
\* it resolved
UpdateFromQuadTreeNodesKeepingCache(st, nodes) ==
    Collect(RunThenHandlers(SyncTiles(RemoveStaleTilesKeepingCache(st, nodes, 1), nodes, 1), 1))

\* Terrain.update of that revision
UpdateKeepingCache(pos) ==
    LET root == RootNode(rootBounds)
        ch == InsertPosition(children, root, pos, maxDepth)
        nodes == LeafSnapshot(ch, root)
        st == UpdateFromQuadTreeNodesKeepingCache(TileState, nodes)
    IN  /\ children' = ch
        /\ quadTreeNodes' = nodes
        /\ position' = pos
        /\ SetTileState(st)
        /\ lastStep' = Step("update", NoId, "", st.requested)
        /\ UNCHANGED <<rootBounds, maxDepth, auxVars>>

NextKeepingCache ==
    \/ \E pos \in CameraPositions : UpdateKeepingCache(pos)
    \/ \E r \in DOMAIN requests : DopTextureLoaded(r)
    \/ \E r \in DOMAIN requests : DemTextureLoaded(r)
    \/ \E r \in DOMAIN requests : TextureLoadFailed(r)

SpecKeepingCache == Init /\ [][NextKeepingCache]_vars

\* the same system with the log of the loadAsync calls switched on
InitLoads ==
    /\ terrainMetadata \in Catalogs
    /\ rootBounds = CatalogBounds
    /\ maxDepth = MaxLevel(terrainMetadata)
    /\ children = [n \in {RootNode(rootBounds)} |-> <<>>]
    /\ quadTreeNodes = <<>>
    /\ position = <<0, 0>>
    /\ terrainTiles = <<>>
    /\ tiles = <<>>
    /\ scene = {}
    /\ terrainTileCache = <<>>
    /\ loadingTileIds = {}
    /\ requests = <<>>
    /\ textures = <<>>
    /\ textureLoads = [recorded |-> TRUE, loads |-> <<>>]
    /\ lastDisposed = {}
    /\ lastStep = Step("init", NoId, "", {})
    /\ workerInbox = <<>>
    /\ workerOutbox = <<>>
    /\ GeneratorInitialized(1)
    /\ pc = "idle"
    /\ passes = 0

SpecLoads == InitLoads /\ [][Next]_vars

\* the same system with a catalog for the lower left quarter of the terrain,
\* MaxCatalogLevel levels deep below that quarter
QuarterCatalogs ==
    {c \in SUBSET {GenerateIdForNode(n) :
                    n \in NodesBelow(CreateChildNodes(RootNode(CatalogBounds))[1], MaxCatalogLevel)} :
        Cardinality(c) \in 1..MaxCatalogEntries}

InitQuarter ==
    /\ terrainMetadata \in QuarterCatalogs
    /\ rootBounds = CatalogBounds
    /\ maxDepth = MaxLevel(terrainMetadata)
    /\ children = [n \in {RootNode(rootBounds)} |-> <<>>]
    /\ quadTreeNodes = <<>>
    /\ position = <<0, 0>>
    /\ terrainTiles = <<>>
    /\ tiles = <<>>
    /\ scene = {}
    /\ terrainTileCache = <<>>
    /\ loadingTileIds = {}
    /\ requests = <<>>
    /\ textures = <<>>
    /\ textureLoads = [recorded |-> FALSE, loads |-> <<>>]
    /\ lastDisposed = {}
    /\ lastStep = Step("init", NoId, "", {})
    /\ workerInbox = <<>>
    /\ workerOutbox = <<>>
    /\ GeneratorInitialized(1)
    /\ pc = "idle"
    /\ passes = 0

SpecQuarter == InitQuarter /\ [][Next]_vars

\* ------------------------------------------------------ quadtree on its own
InitQT ==
    /\ rootBounds \in BoundsChoices
    /\ maxDepth \in 0..MaxDepthBound
    /\ children = [n \in {RootNode(rootBounds)} |-> <<>>]
    /\ quadTreeNodes = <<>>
    /\ position = <<0, 0>>
    /\ terrainMetadata = {}
    /\ terrainTiles = <<>>
    /\ tiles = <<>>
    /\ scene = {}
    /\ terrainTileCache = <<>>
    /\ loadingTileIds = {}
    /\ requests = <<>>
    /\ textures = <<>>
    /\ textureLoads = [recorded |-> FALSE, loads |-> <<>>]
    /\ lastDisposed = {}
    /\ lastStep = Step("init", NoId, "", {})
    /\ workerInbox = <<>>
    /\ workerOutbox = <<>>
    /\ GeneratorInitialized(1)
    /\ pc = "idle"
    /\ passes = 0

\* Terrain.update without the tiles: insertPosition, getChildren, the stitching loop
QuadTreeUpdate(pos) ==
    LET root == RootNode(rootBounds)
        ch == InsertPosition(children, root, pos, maxDepth)
    IN  /\ children' = ch
        /\ quadTreeNodes' = LeafSnapshot(ch, root)
        /\ position' = pos
        /\ lastStep' = Step("update", NoId, "", {})
        /\ UNCHANGED <<rootBounds, maxDepth, tileVars, auxVars>>

\* for every root rectangle the point east of its centre whose distance to the
\* centre is exactly size.x * distanceFactor
LimitPoints ==
    {<<GetCenter(b)[1] + GetSize(b)[1] * DistanceFactor, GetCenter(b)[2]>> : b \in BoundsChoices}

NextQT == \E pos \in Viewpoints \cup LimitPoints : QuadTreeUpdate(pos)

SpecQT == InitQT /\ [][NextQT]_vars

\* the viewpoints of the repeated inserts: every second grid point, and the far point
RebuildPositions ==
    {p \in Viewpoints : p[1] % (2 * ViewStep) = 0 /\ p[2] % (2 * ViewStep) = 0}

\* Terrain.update without the tiles, where the step records whether the
\* viewpoint is the one of the insert before it
QuadTreeRebuild(pos) ==
    LET root == RootNode(rootBounds)
        ch == InsertPosition(children, root, pos, maxDepth)
    IN  /\ children' = ch
        /\ quadTreeNodes' = LeafSnapshot(ch, root)
        /\ position' = pos
        /\ lastStep' = Step("update", NoId,
                            IF lastStep.kind = "update" /\ pos = position THEN "same" ELSE "other", {})
        /\ UNCHANGED <<rootBounds, maxDepth, tileVars, auxVars>>

NextRebuild == \E pos \in RebuildPositions : QuadTreeRebuild(pos)

SpecRebuild == InitQT /\ [][NextRebuild]_vars

\* ------------------------------------------------------ the quadtree worker
\* the most messages that are posted and not yet answered
MaxPosted == 2

\* the viewpoints posted to the worker
WorkerPositions ==
    {<<-ViewStep, -ViewStep>>, <<-ViewStep, 2 * ViewStep>>, <<2 * ViewStep, 2 * ViewStep>>,
     <<ViewStep, 5 * ViewStep>>, <<6 * ViewStep, ViewStep>>, FarPoint}

\* the worker script's createChildNodes: bottomLeft, bottomRight, topLeft, topRight
WorkerCreateChildNodes(node) ==
    LET b == node.bounds
        midPoint == GetCenter(b)
        bottomLeft == Box2(b.min[1], b.min[2], midPoint[1], midPoint[2])
        bottomRight == Box2(midPoint[1], b.min[2], b.max[1], midPoint[2])
        topLeft == Box2(b.min[1], midPoint[2], midPoint[1], b.max[2])
        topRight == Box2(midPoint[1], midPoint[2], b.max[1], b.max[2])
    IN  << Node(node.level + 1, bottomLeft), Node(node.level + 1, bottomRight),
           Node(node.level + 1, topLeft), Node(node.level + 1, topRight) >>

\* the worker script's splitNode: the tree, and whether it split the node
WorkerSplitNode(ch, node, md) ==
    IF Len(ch[node]) > 0 THEN [split |-> FALSE, ch |-> ch]
    ELSE IF node.level >= md THEN [split |-> FALSE, ch |-> ch]
    ELSE [split |-> TRUE, ch |-> SetChildren(ch, node, WorkerCreateChildNodes(node))]

\* the worker script's insertPositionRecursive
RECURSIVE WorkerInsertPositionRecursive(_, _, _, _)
RECURSIVE WorkerInsertPositionChildren(_, _, _, _, _)
WorkerInsertPositionRecursive(ch, node, pos, md) ==
    LET distanceFactor == 2
        limit == GetSize(node.bounds)[1] * distanceFactor
        ch1 == IF DistanceSq(GetCenter(node.bounds), pos) < limit * limit /\ node.level < md
               THEN WorkerSplitNode(ch, node, md).ch ELSE ch
    IN  WorkerInsertPositionChildren(ch1, ch1[node], 1, pos, md)
WorkerInsertPositionChildren(ch, kids, i, pos, md) ==
    IF i > Len(kids) THEN ch
    ELSE WorkerInsertPositionChildren(WorkerInsertPositionRecursive(ch, kids[i], pos, md),
                                      kids, i + 1, pos, md)

\* the worker script's getChildrenRecursive
RECURSIVE WorkerGetChildrenRecursive(_, _)
WorkerGetChildrenRecursive(ch, node) ==
    IF Len(ch[node]) = 0 THEN <<node>>
    ELSE WorkerGetChildrenRecursive(ch, ch[node][1]) \o WorkerGetChildrenRecursive(ch, ch[node][2])
         \o WorkerGetChildrenRecursive(ch, ch[node][3]) \o WorkerGetChildrenRecursive(ch, ch[node][4])

\* the worker script's areEdgeNeighbors
WorkerAreEdgeNeighbors(aBounds, bBounds) ==
    LET shareVerticalEdge ==
            /\ (aBounds.max[1] = bBounds.min[1] \/ aBounds.min[1] = bBounds.max[1])
            /\ aBounds.min[2] < bBounds.max[2]
            /\ aBounds.max[2] > bBounds.min[2]
        shareHorizontalEdge ==
            /\ (aBounds.max[2] = bBounds.min[2] \/ aBounds.min[2] = bBounds.max[2])
            /\ aBounds.min[1] < bBounds.max[1]
            /\ aBounds.max[1] > bBounds.min[1]
    IN  shareVerticalEdge \/ shareHorizontalEdge

\* the worker's loop body with the tests of the North and the South edge exchanged
WorkerStitchingBit_NorthIsMaxY(node, other) ==
    LET my == node.bounds
        ot == other.bounds
        touchesNorthEdge == my.max[2] = ot.min[2] /\ my.min[1] < ot.max[1] /\ my.max[1] > ot.min[1]
        touchesSouthEdge == my.min[2] = ot.max[2] /\ my.min[1] < ot.max[1] /\ my.max[1] > ot.min[1]
        touchesWestEdge == my.min[1] = ot.max[1] /\ my.min[2] < ot.max[2] /\ my.max[2] > ot.min[2]
        touchesEastEdge == my.max[1] = ot.min[1] /\ my.min[2] < ot.max[2] /\ my.max[2] > ot.min[2]
    IN  IF other = node THEN 0
        ELSE IF other.level >= node.level THEN 0
        ELSE IF ~WorkerAreEdgeNeighbors(my, ot) THEN 0
        ELSE IF touchesSouthEdge THEN South
        ELSE IF touchesNorthEdge THEN North
        ELSE IF touchesWestEdge THEN West
        ELSE IF touchesEastEdge THEN East
        ELSE 0

\* the body of the loop of the worker script's updateStitchingModeForNode: the
\* bit that `other` adds to the mode of `node`
WorkerStitchingBit(node, other) ==
    LET my == node.bounds
        ot == other.bounds
        touchesSouthEdge == my.max[2] = ot.min[2] /\ my.min[1] < ot.max[1] /\ my.max[1] > ot.min[1]
        touchesNorthEdge == my.min[2] = ot.max[2] /\ my.min[1] < ot.max[1] /\ my.max[1] > ot.min[1]
        touchesWestEdge == my.min[1] = ot.max[1] /\ my.min[2] < ot.max[2] /\ my.max[2] > ot.min[2]
        touchesEastEdge == my.max[1] = ot.min[1] /\ my.min[2] < ot.max[2] /\ my.max[2] > ot.min[2]
    IN  IF other = node THEN 0
        ELSE IF other.level >= node.level THEN 0
        ELSE IF ~WorkerAreEdgeNeighbors(my, ot) THEN 0
        ELSE IF touchesSouthEdge THEN South
        ELSE IF touchesNorthEdge THEN North
        ELSE IF touchesWestEdge THEN West
        ELSE IF touchesEastEdge THEN East
        ELSE 0

\* the worker script's updateStitchingModeForNode: the bits are or-ed together
WorkerUpdateStitchingModeForNode(node, allNodes) ==
    LET bits == {WorkerStitchingBit(node, allNodes[i]) : i \in 1..Len(allNodes)}
        Bit(b) == IF b \in bits THEN b ELSE 0
    IN  Bit(North) + Bit(East) + Bit(South) + Bit(West)

\* the splits of one scan of the worker script's balance
RECURSIVE WorkerSplitAll(_, _, _)
WorkerSplitAll(ch, nodes, md) ==
    IF nodes = {} THEN ch
    ELSE LET n == CHOOSE x \in nodes : TRUE
         IN  WorkerSplitAll(WorkerSplitNode(ch, n, md).ch, nodes \ {n}, md)

\* the worker script's balance(leaves, maxDepth): one scan over the pairs of
\* the given leaf list; changed when some splitNode call returned true
WorkerBalance(ch, leaves, md) ==
    LET toSplit == { Coarser(leaves[p[1]], leaves[p[2]]) :
                        p \in { q \in (1..Len(leaves)) \X (1..Len(leaves)) :
                                    /\ q[1] < q[2]
                                    /\ WorkerAreEdgeNeighbors(leaves[q[1]].bounds, leaves[q[2]].bounds)
                                    /\ ~(AbsDiff(leaves[q[1]].level, leaves[q[2]].level) <= 1) } }
    IN  [changed |-> \E n \in toSplit : WorkerSplitNode(ch, n, md).split,
         ch |-> WorkerSplitAll(ch, toSplit, md)]

\* while (balance(nodes, maxDepth)) nodes = getChildrenRecursive(root)
RECURSIVE WorkerBalanceLoop(_, _, _)
WorkerBalanceLoop(ch, root, md) ==
    LET scan == WorkerBalance(ch, WorkerGetChildrenRecursive(ch, root), md)
    IN  IF scan.changed THEN WorkerBalanceLoop(scan.ch, root, md) ELSE scan.ch

\* the worker script's onmessage: the leaf list it posts for a message
WorkerNodes(msg) ==
    LET root == RootNode(msg.bounds)
        ch == WorkerBalanceLoop(
                WorkerInsertPositionRecursive([n \in {root} |-> <<>>], root, msg.position, msg.maxDepth),
                root, msg.maxDepth)
        nodes == WorkerGetChildrenRecursive(ch, root)
    IN  [i \in 1..Len(nodes) |->
            [node |-> nodes[i], id |-> GenerateIdForNode(nodes[i]),
             indexStitchingMode |-> WorkerUpdateStitchingModeForNode(nodes[i], nodes)]]

\* QuadTreeWorker.insertPosition: post [bounds, maxDepth, position] to the worker
WorkerInsertPosition(pos) ==
    /\ Len(workerInbox) + Len(workerOutbox) < MaxPosted
    /\ workerInbox' = Append(workerInbox, [bounds |-> rootBounds, maxDepth |-> maxDepth, position |-> pos])
    /\ lastStep' = Step("posted", NoId, "", {})
    /\ UNCHANGED <<qtVars, tileVars, workerOutbox, geoVars, balanceVars>>

\* the worker handles the oldest message of its queue and posts the leaf list
WorkerOnMessage ==
    /\ workerInbox # <<>>
    /\ workerInbox' = Tail(workerInbox)
    /\ workerOutbox' = Append(workerOutbox, [position |-> Head(workerInbox).position,
                                              nodes |-> WorkerNodes(Head(workerInbox))])
    /\ lastStep' = Step("computed", NoId, "", {})
    /\ UNCHANGED <<qtVars, tileVars, geoVars, balanceVars>>

\* this._worker.onmessage of the main thread: callback(nodes) with the oldest
\* leaf list that was posted back
WorkerResultDelivered ==
    /\ workerOutbox # <<>>
    /\ workerOutbox' = Tail(workerOutbox)
    /\ quadTreeNodes' = Head(workerOutbox).nodes
    /\ position' = Head(workerOutbox).position
    /\ lastStep' = Step("delivered", NoId, "", {})
    /\ UNCHANGED <<rootBounds, maxDepth, children, tileVars, workerInbox, geoVars, balanceVars>>

NextWorker ==
    \/ \E pos \in WorkerPositions : WorkerInsertPosition(pos)
    \/ WorkerOnMessage
    \/ WorkerResultDelivered

SpecWorker == InitQT /\ [][NextWorker]_vars

\* --------------------------------------------- insertPosition step by step
\* the scans of one loop are counted up to MaxScans
MaxScans == 6
CountScan(n) == IF n < MaxScans THEN n + 1 ELSE n

\* insertPosition up to the balance loop, of the class or of the worker script:
\* the root's children are cleared and the tree is subdivided for the viewpoint
Subdivide(pos, loop) ==
    /\ pc = "idle"
    /\ LET root == RootNode(rootBounds)
       IN  children' = InsertPositionRecursive(ClearChildren(children, root), root, pos, maxDepth)
    /\ position' = pos
    /\ pc' = loop
    /\ passes' = 0
    /\ lastStep' = Step("subdivide", NoId, "", {})
    /\ UNCHANGED <<rootBounds, maxDepth, quadTreeNodes, tileVars, workerVars, geoVars>>

\* one iteration of the do-while loop of QuadTree.balance: a scan, and the
\* loop is left when the scan has set changed for no pair
BalanceScan ==
    /\ pc = "balance"
    /\ LET scan == BalancePass(children, RootNode(rootBounds), maxDepth)
       IN  /\ children' = scan.ch
           /\ pc' = IF scan.changed THEN "balance" ELSE "idle"
           /\ lastStep' = Step("scan", NoId, IF scan.changed THEN "changed" ELSE "fixed", {})
    /\ passes' = CountScan(passes)
    /\ UNCHANGED <<rootBounds, maxDepth, quadTreeNodes, position, tileVars, workerVars, geoVars>>

\* one evaluation of the condition of the worker script's while loop: a call
\* of balance(nodes, maxDepth), and the loop is left when it returns false
WorkerBalanceScan ==
    /\ pc = "workerBalance"
    /\ LET root == RootNode(rootBounds)
           scan == WorkerBalance(children, WorkerGetChildrenRecursive(children, root), maxDepth)
       IN  /\ children' = scan.ch
           /\ pc' = IF scan.changed THEN "workerBalance" ELSE "idle"
           /\ lastStep' = Step("scan", NoId, IF scan.changed THEN "changed" ELSE "fixed", {})
    /\ passes' = CountScan(passes)
    /\ UNCHANGED <<rootBounds, maxDepth, quadTreeNodes, position, tileVars, workerVars, geoVars>>

NextBalance ==
    \/ \E pos \in Viewpoints \cup LimitPoints : \E loop \in {"balance", "workerBalance"} :
            Subdivide(pos, loop)
    \/ BalanceScan
    \/ WorkerBalanceScan

SpecBalance == InitQT /\ [][NextBalance]_vars

\* a step of a balance loop: pc is in the loop and its scan count advances.  Of
\* the steps of NextBalance these are exactly the steps of BalanceScan (for
\* "balance") and of WorkerBalanceScan (for "workerBalance"), and such a step
\* is possible exactly when pc is in the loop and the count is below MaxScans.
ScanStep(loop) == pc = loop /\ passes' = CountScan(passes)

\* a loop that has been entered runs on: its thread does nothing else until
\* the loop is left
FairBalance ==
    SpecBalance /\ WF_passes(ScanStep("balance")) /\ WF_passes(ScanStep("workerBalance"))

\* ------------------------------------------------ the generator on its own
\* the largest TILE_SIZE, and the keys getGeometryForStitchingMode is called with
MaxTileSize == 3
MaxModeKey == 15

InitGeo ==
    /\ tileSize \in 1..MaxTileSize
    /\ indexBuffers = <<>>
    /\ geometries = <<>>
    /\ returned = <<>>
    /\ rootBounds = CatalogBounds
    /\ maxDepth = 0
    /\ children = [n \in {RootNode(rootBounds)} |-> <<>>]
    /\ quadTreeNodes = <<>>
    /\ position = <<0, 0>>
    /\ terrainMetadata = {}
    /\ terrainTiles = <<>>
    /\ tiles = <<>>
    /\ scene = {}
    /\ terrainTileCache = <<>>
    /\ loadingTileIds = {}
    /\ requests = <<>>
    /\ textures = <<>>
    /\ textureLoads = [recorded |-> FALSE, loads |-> <<>>]
    /\ lastDisposed = {}
    /\ lastStep = Step("init", NoId, "", {})
    /\ workerInbox = <<>>
    /\ workerOutbox = <<>>
    /\ pc = "idle"
    /\ passes = 0

\* GeometryGenerator.initialize, which runs once at start-up
Initialize ==
    /\ geometries = <<>>
    /\ indexBuffers' = IntitializeIndexBufferForStitchingModes(tileSize)
    /\ geometries' = InitalizeGeometriesForStitchingModes(tileSize)
    /\ lastStep' = Step("initialize", NoId, "", {})
    /\ UNCHANGED <<qtVars, tileVars, workerVars, balanceVars, tileSize, returned>>

\* a call of getGeometryForStitchingMode(mode): the geometry it returns and
\* the index array that geometry has at the time of the call
GetGeometry(mode) ==
    /\ LET geometry == GetGeometryForStitchingMode(mode)
           result == [mode |-> mode, geometry |-> geometry, initialized |-> geometries # <<>>,
                      indices |-> IF geometry = NoGeometry THEN <<>>
                                  ELSE indexBuffers[geometries[geometry].index]]
       IN  returned' = IF returned = <<>> THEN <<result>> ELSE <<returned[Len(returned)], result>>
    /\ lastStep' = Step("getGeometry", NoId, "", {})
    /\ UNCHANGED <<qtVars, tileVars, workerVars, balanceVars, tileSize, indexBuffers, geometries>>

NextGeo ==
    \/ Initialize
    \/ \E mode \in 0..MaxModeKey : GetGeometry(mode)

SpecGeo == InitGeo /\ [][NextGeo]_vars

\* --------------------------------------- a leaf list with any mask in it
\* a catalog that has the tile of the root only
InitMasks ==
    /\ Init
    /\ terrainMetadata = {GenerateIdForNode(RootNode(CatalogBounds))}

\* updateFromQuadTreeNodes called with the leaf list of the viewpoint in which
\* one leaf reports the mask `mask`, any of the sixteen values of the four bits
UpdateWithMask(pos, mask) ==
    LET root == RootNode(rootBounds)
        ch == InsertPosition(children, root, pos, maxDepth)
        leaves == LeafSnapshot(ch, root)
    IN  \E k \in 1..Len(leaves) :
        LET nodes == [i \in 1..Len(leaves) |->
                        IF i = k THEN [leaves[i] EXCEPT !.indexStitchingMode = mask] ELSE leaves[i]]
            st == UpdateFromQuadTreeNodes(TileState, nodes)
        IN
        /\ children' = ch
        /\ quadTreeNodes' = nodes
        /\ position' = pos
        /\ SetTileState(st)
        /\ lastStep' = Step("update", NoId, "", st.requested)
        /\ UNCHANGED <<rootBounds, maxDepth, auxVars>>

NextMasks ==
    \/ \E pos \in CameraPositions, mask \in 0..MaxModeKey : UpdateWithMask(pos, mask)
    \/ \E r \in DOMAIN requests : DopTextureLoaded(r)
    \/ \E r \in DOMAIN requests : DemTextureLoaded(r)
    \/ \E r \in DOMAIN requests : TextureLoadFailed(r)

SpecMasks == InitMasks /\ [][NextMasks]_vars

\* ------------------------------------------------------------------ claims
Entries == {quadTreeNodes[i] : i \in 1..Len(quadTreeNodes)}
Leaves == {e.node : e \in Entries}
LeafIds == {e.id : e \in Entries}
ActiveIds == {tiles[terrainTiles[i]].identifier : i \in 1..Len(terrainTiles)}
InFlightIds == {r.id : r \in DOMAIN requests}
HasMetadata(id) == id \in terrainMetadata

OverlapX(a, b) == a.min[1] < b.max[1] /\ a.max[1] > b.min[1]
OverlapY(a, b) == a.min[2] < b.max[2] /\ a.max[2] > b.min[2]

\* the edge of rectangle `my` named by `bit` lies on the opposite edge of `ot`;
\* North is the min-Y edge, South the max-Y edge, West min-X, East max-X
SharesEdge(bit, my, ot) ==
    CASE bit = North -> my.min[2] = ot.max[2] /\ OverlapX(my, ot)
      [] bit = South -> my.max[2] = ot.min[2] /\ OverlapX(my, ot)
      [] bit = West -> my.min[1] = ot.max[1] /\ OverlapY(my, ot)
      [] bit = East -> my.max[1] = ot.min[1] /\ OverlapY(my, ot)

\* C1: after insertPosition has balanced the tree, any two edge-adjacent
\* leaves have levels that differ by at most 1
BalancedLeaves ==
    \A a \in Leaves : \A b \in Leaves :
        AreEdgeNeighbors(a.bounds, b.bounds) => AbsDiff(a.level, b.level) <= 1

\* the balance pass split at least one leaf that the subdivision had left
BalanceSplitSomething ==
    /\ quadTreeNodes # <<>>
    /\ LET root == RootNode(rootBounds)
       IN  Len(GetChildrenRecursive(
                InsertPositionRecursive([n \in {root} |-> <<>>], root, position, maxDepth), root))
             < Len(quadTreeNodes)

\* C2: after an update every active tile has the id of a leaf of that update
\* (every tile whose id is not a leaf's was removed in that update)
NoStaleTileAfterUpdate ==
    lastStep.kind = "update" => ActiveIds \subseteq LeafIds

\* C3: a request that completes for an id that is no longer a leaf's id is
\* discarded: its tile is not in the active tiles
StaleCompletionDiscarded ==
    (lastStep.kind = "created" /\ lastStep.id \notin LeafIds) => lastStep.id \notin ActiveIds

BitIffCoarserNeighbor ==
    \A a \in Entries : \A bit \in {North, East, South, West} :
        HasBit(a.indexStitchingMode, bit)
            <=> \E b \in Entries :
                    b.node.level < a.node.level /\ SharesEdge(bit, a.node.bounds, b.node.bounds)

\* an LOD boundary: the finer leaf stitches, the coarser one next to it is Full
\* although it has finer neighbours; and some leaf stitches a corner
FinerStitchesCoarserFull ==
    /\ \E a \in Entries : \E b \in Entries :
          /\ b.node.level < a.node.level
          /\ AreEdgeNeighbors(a.node.bounds, b.node.bounds)
          /\ a.indexStitchingMode # Full
          /\ b.indexStitchingMode = Full
    /\ \E a \in Entries : a.indexStitchingMode \in {NorthEast, SouthEast, SouthWest, NorthWest}

Area(b) == (b.max[1] - b.min[1]) * (b.max[2] - b.min[2])
InteriorsDisjoint(a, b) ==
    a.max[1] <= b.min[1] \/ b.max[1] <= a.min[1] \/ a.max[2] <= b.min[2] \/ b.max[2] <= a.min[2]
Inside(a, b) ==
    b.min[1] <= a.min[1] /\ a.max[1] <= b.max[1] /\ b.min[2] <= a.min[2] /\ a.max[2] <= b.max[2]

\* the four rectangles cut from b by the lines through its midpoint
Quadrants(b) ==
    LET midX == (b.min[1] + b.max[1]) \div 2
        midY == (b.min[2] + b.max[2]) \div 2
    IN  { Box2(x[1], y[1], x[2], y[2]) :
            x \in {<<b.min[1], midX>>, <<midX, b.max[1]>>},
            y \in {<<b.min[2], midY>>, <<midY, b.max[2]>>} }

\* C6: no node is deeper than maxDepth, and a node with children has exactly
\* four, on the next level, whose bounds are the four quadrants of its bounds
\* and cover them without gap or overlap
QuadrisectedWithinMaxDepth ==
    \A n \in DOMAIN children :
        /\ n.level <= maxDepth
        /\ Len(children[n]) \in {0, 4}
        /\ Len(children[n]) = 4 =>
            /\ {children[n][i].bounds : i \in 1..4} = Quadrants(n.bounds)
            /\ \A i \in 1..4 :
                /\ children[n][i].level = n.level + 1
                /\ Inside(children[n][i].bounds, n.bounds)
                /\ \A j \in 1..4 : i # j => InteriorsDisjoint(children[n][i].bounds, children[n][j].bounds)
            /\ Area(children[n][1].bounds) + Area(children[n][2].bounds)
                + Area(children[n][3].bounds) + Area(children[n][4].bounds) = Area(n.bounds)

\* a tree subdivided down to maxDepth in which balance has split a node
DeepTreeAfterBalance ==
    /\ maxDepth >= 2
    /\ \E n \in Leaves : n.level = maxDepth
    /\ \E n \in DOMAIN children : n.level = maxDepth - 1 /\ Len(children[n]) = 4
    /\ BalanceSplitSomething

\* C7: no id has two suspended requests, and no id of an active tile has one
OneRequestPerId ==
    /\ \A r \in DOMAIN requests : requests[r] = 1 /\ r.id \in loadingTileIds
    /\ \A r1 \in DOMAIN requests : \A r2 \in DOMAIN requests : r1.id = r2.id => r1 = r2
    /\ InFlightIds \cap ActiveIds = {}

\* an update ran while the request of one of its leaves was suspended on its
\* second texture, so had been issued by an earlier update
UpdateWhileLeafInFlight ==
    /\ lastStep.kind = "update"
    /\ \E r \in DOMAIN requests : r.stage = "dem" /\ r.id \in LeafIds
    /\ terrainTiles # <<>>

\* C8: when a texture load fails the request resolves with no tile (it does
\* not reject), and no tile with its id is inserted
TextureFailureResolvesNone ==
    lastStep.kind = "textureFailed" =>
        lastStep.outcome = "none" /\ lastStep.id \notin ActiveIds

\* C9: after a texture load failed for an id, the id is requested again: after
\* every update each leaf with a catalog entry has an active tile or a
\* suspended request
LeafRequestedAgainAfterFailure ==
    lastStep.kind = "update" =>
        \A id \in LeafIds : HasMetadata(id) => id \in ActiveIds \cup InFlightIds

\* C10: every update requests each of its leaves that has no catalog entry,
\* the request resolves with no tile, and the id is neither active nor left loading
MissingEntryRetriedEveryUpdate ==
    lastStep.kind = "update" =>
        \A id \in LeafIds : ~HasMetadata(id) =>
            /\ id \in lastStep.requested
            /\ id \notin ActiveIds
            /\ id \notin loadingTileIds
            /\ id \notin InFlightIds

\* an update that is not the first one (a tile of one of its leaves is
\* active) requested a leaf without catalog entry
MissingEntryRequestedAgain ==
    /\ lastStep.kind = "update"
    /\ \E id \in LeafIds : ~HasMetadata(id) /\ id \in lastStep.requested
    /\ \E id \in LeafIds : id \in ActiveIds

\* C11: the texture of an image path is loaded at most once: loadAsync is
\* never called again for a path it was called for before
TextureLoadedAtMostOnce ==
    \A p \in DOMAIN textureLoads.loads : textureLoads.loads[p] = "once"

OneComputationInFlight ==
    Len(workerInbox) + Len(workerOutbox) <= 1

\* the mode the leaf with this id has in the leaf list
ModeOfLeaf(nodes, id) ==
    nodes[CHOOSE k \in 1..Len(nodes) : nodes[k].id = id].indexStitchingMode

\* C14: when an update has run, every active tile with the id of one of its
\* leaves has the mode computed for that leaf and the shared geometry of that
\* mode, and the update went on to replace the geometry of such a tile only if
\* the tile had a different mode before the update
MaskSyncedGeometrySwappedOnChange ==
    [][ lastStep'.kind = "update" =>
            \A i \in 1..Len(terrainTiles') :
                LET t == terrainTiles'[i]
                    id == tiles'[t].identifier
                IN  (\E k \in 1..Len(quadTreeNodes') : quadTreeNodes'[k].id = id) =>
                        /\ tiles'[t].stitchingMode = ModeOfLeaf(quadTreeNodes', id)
                        /\ tiles'[t].geometry = ModeOfLeaf(quadTreeNodes', id)
                        /\ tiles'[t].swapped =>
                                (t \in DOMAIN tiles /\ tiles[t].stitchingMode # tiles'[t].stitchingMode)
      ]_vars

\* an update replaced the geometry of an active tile whose leaf now stitches,
\* and another update left the geometry of an active tile alone
GeometrySwappedForNewMask ==
    /\ lastStep.kind = "update"
    /\ \E i \in 1..Len(terrainTiles) :
          /\ tiles[terrainTiles[i]].identifier \in LeafIds
          /\ tiles[terrainTiles[i]].swapped
          /\ tiles[terrainTiles[i]].stitchingMode # Full
          /\ tiles[terrainTiles[i]].geometry = tiles[terrainTiles[i]].stitchingMode


\* C15: after initialization two calls of getGeometryForStitchingMode for the
\* same mode return the same cached geometry, with the same index array (the
\* same triangle count and connectivity), and the generator holds exactly
\* nine geometries, one for each stitching mode.
GeometryForIdempotent ==
    /\ geometries # <<>> =>
            /\ DOMAIN geometries = StitchingModes
            /\ Cardinality(DOMAIN geometries) = 9
            /\ DOMAIN indexBuffers = StitchingModes
    /\ (Len(returned) = 2 /\ returned[1].initialized /\ returned[1].mode = returned[2].mode) =>
            /\ returned[1].geometry = returned[2].geometry
            /\ returned[1].indices = returned[2].indices
            /\ returned[1].mode \in StitchingModes =>
                    /\ returned[2].geometry # NoGeometry
                    /\ returned[2].indices = indexBuffers[returned[2].mode]

SameModeAskedTwice ==
    /\ Len(returned) = 2
    /\ returned[1].initialized
    /\ returned[1].mode = returned[2].mode
    /\ returned[1].mode = NorthEast
    /\ returned[2].geometry # NoGeometry
    /\ Len(returned[2].indices) > 0

\* the logical quads of an N by N grid, as <<column, row>>, and the number of
\* triangles an index array has in the fan around the centre of a quad
Quads(n) == (0..(n - 1)) \X (0..(n - 1))
TrianglesOfQuad(indices, n, q) ==
    Cardinality({k \in 1..(Len(indices) \div 3) :
                    indices[3 * k] = Idx(2 * n, 2 * q[1] + 1, 2 * q[2] + 1)})
QuadsWithTriangles(indices, n, count) ==
    {q \in Quads(n) : TrianglesOfQuad(indices, n, q) = count}
FlaggedQuads(mode, n) ==
    IF mode = North THEN {q \in Quads(n) : q[2] = n - 1}
    ELSE IF mode = South THEN {q \in Quads(n) : q[2] = 0}
    ELSE IF mode = West THEN {q \in Quads(n) : q[1] = 0}
    ELSE IF mode = East THEN {q \in Quads(n) : q[1] = n - 1}
    ELSE {}

\* C16: in the index array generated for an N by N grid every quad has 8
\* triangles in Full mode; in a single-edge mode exactly the N quads of the
\* flagged row or column have a fan of 7 triangles and all others have 8; in
\* a corner mode exactly one quad has a fan of 6 triangles.
TriangleCountsPerMode ==
    \A mode \in DOMAIN indexBuffers :
        LET indices == indexBuffers[mode]
            n == tileSize
        IN  /\ Len(indices) % 3 = 0
            /\ \A k \in 1..(Len(indices) \div 3) :
                    \E q \in Quads(n) : indices[3 * k] = Idx(2 * n, 2 * q[1] + 1, 2 * q[2] + 1)
            /\ mode = Full => QuadsWithTriangles(indices, n, 8) = Quads(n)
            /\ mode \in {North, East, South, West} =>
                    /\ QuadsWithTriangles(indices, n, 7) = FlaggedQuads(mode, n)
                    /\ Cardinality(FlaggedQuads(mode, n)) = n
                    /\ QuadsWithTriangles(indices, n, 8) = Quads(n) \ FlaggedQuads(mode, n)
            /\ mode \in {NorthEast, SouthEast, SouthWest, NorthWest} =>
                    Cardinality(QuadsWithTriangles(indices, n, 6)) = 1

IndexBuffersGeneratedForGrid ==
    /\ tileSize = 2
    /\ DOMAIN indexBuffers = StitchingModes
    /\ Len(indexBuffers[Full]) = 3 * 8 * 4
    /\ Len(indexBuffers[North]) = 3 * (8 * 2 + 7 * 2)


\* the leaves of the last update that are at a level
LeavesAtLevel(level) == {n \in Leaves : n.level = level}
\* the tree of the example: a square root (2 by 2 units of RootUnit / 2),
\* maxDepth 2, rebuilt for the viewpoint at the centre of the root
UpdatedAtCentreOfSquare ==
    /\ lastStep.kind = "update"
    /\ rootBounds = Box2(0, 0, RootUnit, RootUnit)
    /\ maxDepth = 2
    /\ position = GetCenter(rootBounds)

\* C17 as stated: the leaves are 4 at level 2 and 3 at level 1
CentreViewpointSevenLeaves ==
    UpdatedAtCentreOfSquare =>
        /\ Cardinality(LeavesAtLevel(2)) = 4
        /\ Cardinality(LeavesAtLevel(1)) = 3
        /\ Len(quadTreeNodes) = 7

\* C17: with a 2 by 2 root, maxDepth 2 and the viewpoint at the centre of the
\* root, all four level-1 children are within size.x * K of the viewpoint and
\* split again: the leaves are exactly the 16 nodes of level 2.
CentreViewpointSixteenLeaves ==
    UpdatedAtCentreOfSquare =>
        /\ Cardinality(LeavesAtLevel(2)) = 16
        /\ Leaves = LeavesAtLevel(2)
        /\ Len(quadTreeNodes) = 16
        /\ \A n \in DOMAIN children : n.level = 1 =>
                /\ IsCloseEnough(n, position)
                /\ Len(children[n]) = 4

CentreViewpointTreeBuilt ==
    /\ UpdatedAtCentreOfSquare
    /\ Len(children[RootNode(rootBounds)]) = 4
    /\ Len(quadTreeNodes) > 4


\* the viewpoint is at least size.x * K away from the centre of the root
FarFromRoot(pos) ==
    LET limit == GetSize(rootBounds)[1] * 2
    IN  DistanceSq(GetCenter(rootBounds), pos) >= limit * limit

\* C18: an update for a viewpoint whose distance to the centre of the root is
\* at least the root's size.x times K leaves the root as the only leaf,
\* whatever the tree was before the update.
FarViewpointLeavesRootOnly ==
    [][(lastStep'.kind = "update" /\ FarFromRoot(position')) =>
            /\ Leaves' = {RootNode(rootBounds)}
            /\ Len(quadTreeNodes') = 1
            /\ DOMAIN children' = {RootNode(rootBounds)}]_vars

RootOnlyAtTheLimit ==
    /\ lastStep.kind = "update"
    /\ maxDepth >= 2
    /\ FarFromRoot(position)
    /\ position \in LimitPoints
    /\ Leaves = {RootNode(rootBounds)}


\* the test of the claim for a node: its centre is nearer to the viewpoint than
\* size.x * K with K = 2, and its level is below maxDepth
SplitCondition(n) ==
    /\ DistanceSq(GetCenter(n.bounds), position) < (GetSize(n.bounds)[1] * 2) * (GetSize(n.bounds)[1] * 2)
    /\ n.level < maxDepth
JustSubdivided == pc \in {"balance", "workerBalance"} /\ passes = 0

BalanceTerminates == (pc \in {"balance", "workerBalance"}) ~> (pc = "idle")

BalanceLeftAfterSeveralScans ==
    /\ pc = "idle"
    /\ passes >= 2
    /\ passes < MaxScans
    /\ lastStep.kind = "scan"
    /\ lastStep.outcome = "fixed"


\* a strictly coarser leaf lies across the edge `bit` of the leaf of entry a
CoarserAcross(a, bit) ==
    \E b \in Entries : b.node.level < a.node.level /\ SharesEdge(bit, a.node.bounds, b.node.bounds)
BitsOf(mode) == {bit \in {North, East, South, West} : HasBit(mode, bit)}

\* C21: after an update every leaf's mode is one of the nine modes: no leaf
\* has two opposite edges flagged or more than two edges flagged, and a leaf
\* with coarser neighbours across two adjacent edges has the corner mode of
\* these two edges.
MaskIsOneOfNineModes ==
    \A a \in Entries :
        /\ a.indexStitchingMode \in StitchingModes
        /\ ~(HasBit(a.indexStitchingMode, North) /\ HasBit(a.indexStitchingMode, South))
        /\ ~(HasBit(a.indexStitchingMode, East) /\ HasBit(a.indexStitchingMode, West))
        /\ Cardinality(BitsOf(a.indexStitchingMode)) <= 2
        /\ \A p \in {<<North, East>>, <<South, East>>, <<South, West>>, <<North, West>>} :
                (CoarserAcross(a, p[1]) /\ CoarserAcross(a, p[2])) =>
                    a.indexStitchingMode = p[1] + p[2]

LeafWithTwoCoarserNeighbours ==
    \E a \in Entries :
        /\ a.indexStitchingMode \in {NorthEast, SouthEast, SouthWest, NorthWest}
        /\ \A bit \in BitsOf(a.indexStitchingMode) : CoarserAcross(a, bit)


\* C22: after every update and every completion of a tile load no two active
\* tiles have the same key.
NoTwoActiveTilesWithOneKey ==
    \A i \in 1..Len(terrainTiles) : \A j \in 1..Len(terrainTiles) :
        tiles[terrainTiles[i]].identifier = tiles[terrainTiles[j]].identifier => i = j

\* a load completed for a leaf that had disappeared while the load was in
\* flight, and its tile is active next to another one
TileOfVanishedLeafActive ==
    /\ lastStep.kind = "created"
    /\ lastStep.id \notin LeafIds
    /\ lastStep.id \in ActiveIds
    /\ Len(terrainTiles) >= 2


\* C23: a disposed tile is never handed out again: no active tile and no tile
\* of the scene is a disposed one.
NoDisposedTileActive ==
    /\ \A i \in 1..Len(terrainTiles) : ~tiles[terrainTiles[i]].disposed
    /\ \A t \in scene : ~tiles[t].disposed


\* the tiles of the active list
ActiveTiles == {terrainTiles[i] : i \in 1..Len(terrainTiles)}

\* C24: after every update and every completion of a tile load the tiles
\* attached to the scene are exactly the active tiles, each of them once.
SceneEqualsActiveSet ==
    /\ scene = ActiveTiles
    /\ Cardinality(ActiveTiles) = Len(terrainTiles)

\* an update removed a tile from the active list and from the scene and left
\* another one in both
TileRemovedFromSceneAndActiveSet ==
    /\ lastStep.kind = "update"
    /\ lastDisposed # {}
    /\ lastDisposed \cap scene = {}
    /\ lastDisposed \cap ActiveTiles = {}
    /\ scene # {}


\* C25: every tile of the active list and of the scene is completely
\* constructed: both its textures are loaded textures and it has the geometry
\* of a mode; a tile whose textures are still loading is in neither.
OnlyCompleteTilesActive ==
    /\ \A t \in ActiveTiles \cup scene :
            /\ tiles[t].uDopTexture \in DOMAIN textures
            /\ tiles[t].uDemTexture \in DOMAIN textures
            /\ textures[tiles[t].uDopTexture].path = DopImagePath(tiles[t].identifier)
            /\ textures[tiles[t].uDemTexture].path = DemImagePath(tiles[t].identifier)
            /\ tiles[t].geometry \in DOMAIN geometries
    /\ \A r \in DOMAIN requests : r.id \notin ActiveIds

\* a tile was added when its second texture had loaded, while the tile of
\* another leaf is still waiting for its second texture
TileAddedWhenBothTexturesLoaded ==
    /\ lastStep.kind = "created"
    /\ lastStep.id \in ActiveIds
    /\ \E r \in DOMAIN requests : r.stage = "dem" /\ r.id # lastStep.id


\* the shared geometries that a tile which is not disposed has as the geometry
\* of its mesh
GeometriesInUse == {tiles[t].geometry : t \in {u \in DOMAIN tiles : ~tiles[u].disposed}}

\* C26: the shared geometries are not changed after their creation: no step
\* (constructing a tile, changing a tile's mode, disposing a tile) changes the
\* index buffer, the attributes or the bounding volumes of a geometry that a
\* tile is using, or disposes it.
SharedGeometryUnchangedForItsTiles ==
    [][/\ indexBuffers' = indexBuffers
       /\ DOMAIN geometries' = DOMAIN geometries
       /\ \A g \in GeometriesInUse \cap DOMAIN geometries : geometries'[g] = geometries[g]]_vars


\* the active tiles of the leaves that report a mask which is none of the nine modes
TilesOfInvalidMasks ==
    {t \in ActiveTiles : \E i \in 1..Len(quadTreeNodes) :
        /\ quadTreeNodes[i].id = tiles[t].identifier
        /\ quadTreeNodes[i].indexStitchingMode \notin DOMAIN geometries}

LeavesOfFirstInsert(pos) ==
    LET root == RootNode(rootBounds)
    IN  LeafSnapshot(InsertPosition([n \in {root} |-> <<>>], root, pos, maxDepth), root)

\* C28: the leaves (levels, bounds, masks) after an insert are those of an
\* insert of the same viewpoint into a tree without children, whatever tree
\* the earlier inserts left, and an insert of the viewpoint of the insert
\* before it leaves the leaf list as it is.
InsertIsFullRebuild ==
    [][lastStep'.kind = "update" =>
            /\ quadTreeNodes' = LeavesOfFirstInsert(position')
            /\ (lastStep'.outcome = "same" => quadTreeNodes' = quadTreeNodes)]_vars

SameViewpointInsertedTwice ==
    /\ lastStep.kind = "update"
    /\ lastStep.outcome = "same"
    /\ Len(quadTreeNodes) >= 7
    /\ \E i \in 1..Len(quadTreeNodes) : quadTreeNodes[i].indexStitchingMode # Full


\* the leaf list the QuadTree class computes for a viewpoint over the root
\* rectangle and maxDepth of the state: insertPosition, getChildren, and
\* updateStitchingModeForNode for every leaf
InThreadLeaves(pos) ==
    LET root == RootNode(rootBounds)
    IN  LeafSnapshot(InsertPosition([n \in {root} |-> <<>>], root, pos, maxDepth), root)

\* C29: every leaf list the worker script posts back, and the one delivered to
\* the main thread, is the list (levels, bounds, ids, masks, in the same order)
\* the QuadTree class computes in-thread for the same root rectangle, maxDepth
\* and viewpoint.
WorkerAgreesWithInThreadQuadTree ==
    /\ \A i \in 1..Len(workerOutbox) :
            workerOutbox[i].nodes = InThreadLeaves(workerOutbox[i].position)
    /\ lastStep.kind = "delivered" => quadTreeNodes = InThreadLeaves(position)

WorkerDeliveredStitchedLeaves ==
    /\ lastStep.kind = "delivered"
    /\ Len(quadTreeNodes) >= 7
    /\ \E i \in 1..Len(quadTreeNodes) : quadTreeNodes[i].indexStitchingMode \in {North, South}
    /\ \E i \in 1..Len(quadTreeNodes) : quadTreeNodes[i].indexStitchingMode \in {East, West}


\* the part of an index array that belongs to a quad of an n by n grid: the
\* triangles around the centre of the quad, which follow one another
QuadFan(indices, n, q) ==
    LET ks == {k \in 1..(Len(indices) \div 3) :
                    indices[3 * k] = Idx(2 * n, 2 * q[1] + 1, 2 * q[2] + 1)}
        first == CHOOSE k \in ks : \A j \in ks : k <= j
    IN  IF ks = {} THEN <<>>
        ELSE SubSeq(indices, 3 * first - 2, 3 * (first + Cardinality(ks) - 1))

\* a quad is on an edge by its position: North is the last row, South the
\* first row, West the first column, East the last column
QuadOnEdge(bit, n, q) ==
    \/ bit = North /\ q[2] = n - 1
    \/ bit = South /\ q[2] = 0
    \/ bit = West /\ q[1] = 0
    \/ bit = East /\ q[1] = n - 1

\* the pattern the rule gives a quad: the corner pattern when two flagged
\* edges meet at the quad, the edge pattern when the quad is on one flagged
\* edge only, the full pattern otherwise
PatternOfQuad(mode, n, q) ==
    LET flagged == {bit \in BitsOf(mode) : QuadOnEdge(bit, n, q)}
    IN  IF Cardinality(flagged) = 2 THEN CHOOSE m \in StitchingModes : BitsOf(m) = flagged
        ELSE IF Cardinality(flagged) = 1 THEN CHOOSE bit \in flagged : TRUE
        ELSE Full

\* the triangles of a pattern for the quad at (x, y)
FanOfPattern(pattern, gridRes, x, y) ==
    CASE pattern = Full -> GenerateIndexBufferForStitchingModeFull(gridRes, x, y)
      [] pattern = North -> GenerateIndexBufferForStitchingModeNorthEdge(gridRes, x, y)
      [] pattern = East -> GenerateIndexBufferForStitchingModeEastEdge(gridRes, x, y)
      [] pattern = South -> GenerateIndexBufferForStitchingModeSouthEdge(gridRes, x, y)
      [] pattern = West -> GenerateIndexBufferForStitchingModeWestEdge(gridRes, x, y)
      [] pattern = NorthEast -> GenerateIndexBufferForStitchingModeNorthEastCorner(gridRes, x, y)
      [] pattern = SouthEast -> GenerateIndexBufferForStitchingModeSouthEastCorner(gridRes, x, y)
      [] pattern = SouthWest -> GenerateIndexBufferForStitchingModeSouthWestCorner(gridRes, x, y)
      [] pattern = NorthWest -> GenerateIndexBufferForStitchingModeNorthWestCorner(gridRes, x, y)

\* C30: in the index array of every mode every quad of the grid has the
\* triangles of the pattern chosen by priority: the corner pattern if the quad
\* is at the corner of two flagged edges, else the edge pattern if the quad is
\* in the row or column of one flagged edge, else the full pattern, where a
\* quad is on the North edge iff it is in the last row (and by position
\* likewise for South, West and East).
PatternChosenByPriority ==
    \A mode \in DOMAIN indexBuffers : \A q \in Quads(tileSize) :
        QuadFan(indexBuffers[mode], tileSize, q) =
            FanOfPattern(PatternOfQuad(mode, tileSize, q), 2 * tileSize, 2 * q[1], 2 * q[2])

CornerEdgeAndInnerQuadsGenerated ==
    /\ tileSize = 3
    /\ DOMAIN indexBuffers = StitchingModes
    /\ TrianglesOfQuad(indexBuffers[NorthEast], 3, <<2, 2>>) = 6
    /\ TrianglesOfQuad(indexBuffers[NorthEast], 3, <<0, 2>>) = 7
    /\ TrianglesOfQuad(indexBuffers[NorthEast], 3, <<2, 0>>) = 7
    /\ TrianglesOfQuad(indexBuffers[NorthEast], 3, <<1, 1>>) = 8

====
